---- MODULE Spec2Model ----
(***************************************************************************)
(* Model of backend/app.py: the /api/age-check handler of the Age-X API.   *)
(*                                                                         *)
(* Each call of age_check is a coroutine on the single asyncio event loop  *)
(* started by uvicorn.run.  The handler body contains no await, so once    *)
(* the loop starts a call nothing else runs on the loop until the call     *)
(* leaves the handler.                                                     *)
(*                                                                         *)
(* Python values are tagged records (kind = "None", "str", "list",         *)
(* "object", "dict"); a dict carries a TLA+ record d whose DOMAIN is the   *)
(* set of keys.  Confidences are integers in hundredths (0.0 is 0).        *)
(* A base64 payload is a sequence of character classes:                    *)
(*   "A" a base64 alphabet character, "=" the pad character,               *)
(*   "#" an ASCII character outside the alphabet, "u" a non-ASCII one.     *)
(***************************************************************************)
EXTENDS Integers, Sequences, FiniteSets, TLC

\* ---------------------------------------------------------------- bounds
NumCalls == 2
MaxLen == 4
MaxFaces == 2

Calls == 1..NumCalls

Chars == {"A", "=", "#", "u"}

Payloads == UNION {[1..n -> Chars] : n \in 0..MaxLen}

\* ------------------------------------------------------- python values
Unset == [kind |-> "unset"]

PyNone == [kind |-> "None"]

PyList == [kind |-> "list"]

PyObject == [kind |-> "object"]

Str(s) == [kind |-> "str", s |-> s]

Dict(d) == [kind |-> "dict", d |-> d]

Truthy(v) == v.kind = "str" /\ v.s # ""

\* dict.get(key) for the one key the handler reads
GetError(d) == IF "error" \in DOMAIN d THEN d.error ELSE PyNone

\* ----------------------------------------------------------- exceptions
NoExc == [type |-> "none", status |-> 0, detail |-> ""]

Exc(t) == [type |-> t, status |-> 0, detail |-> ""]

HTTPException(code, text) == [type |-> "HTTPException", status |-> code, detail |-> text]

\* classes deriving from Exception (KeyboardInterrupt derives from BaseException only)
IsException(t) == t \in {"HTTPException", "ValueError", "binascii.Error", "UnidentifiedImageError",
                         "OSError", "DecompressionBombError", "InferenceError", "RuntimeError",
                         "TypeError"}

\* ------------------------------------------------------------- decoding
\* binascii.a2b_base64 in non-strict mode: the number of bytes produced, or -1
\* for binascii.Error.  quad is the position in the current 4-character group.
RECURSIVE a2b_base64(_, _, _, _, _)
a2b_base64(s, i, quad, pads, n) ==
    IF i > Len(s) THEN (IF quad # 0 THEN -1 ELSE n)
    ELSE IF s[i] = "=" THEN
        IF quad >= 2 /\ quad + pads + 1 >= 4 THEN n
        ELSE a2b_base64(s, i + 1, quad, IF quad >= 2 THEN pads + 1 ELSE pads, n)
    ELSE IF s[i] = "#" THEN a2b_base64(s, i + 1, quad, pads, n)
    ELSE a2b_base64(s, i + 1, (quad + 1) % 4, 0, IF quad = 0 THEN n ELSE n + 1)

\* base64.b64decode(str): the exception type raised, or "none" with the byte count
b64decode(s) ==
    IF \E k \in 1..Len(s) : s[k] = "u" THEN [raised |-> "ValueError", len |-> -1]
    ELSE IF a2b_base64(s, 1, 0, 0, 0) < 0 THEN [raised |-> "binascii.Error", len |-> -1]
    ELSE [raised |-> "none", len |-> a2b_base64(s, 1, 0, 0, 0)]

\* what Image.open(...).convert("RGB") / np.array can do with a byte string:
\* no format recognises an empty stream; other bytes may decode ("ok") or fail
ImageOutcomes(len) ==
    IF len = 0 THEN {"UnidentifiedImageError"}
    ELSE {"ok", "UnidentifiedImageError", "ValueError", "OSError", "DecompressionBombError"}

DecodeCaughtValueErrorOnly(t) == t \in {"ValueError", "binascii.Error"}

\* except (ValueError, UnidentifiedImageError); binascii.Error is a ValueError
DecodeCaught(t) == t \in {"ValueError", "binascii.Error", "UnidentifiedImageError"}

\* --------------------------------------------------------------- images
MinConfidence == 50
T1 == 13
T2 == 18

Bands == {"Kid", "Teen", "Adult"}

Ages == {-1, T1 - 1, T1, T2 - 1, T2, 40}

Confidences == {0, MinConfidence - 1, MinConfidence, 100}

NoImage == [faces |-> -1, age |-> 0, conf |-> 0]

\* what a decoded raster shows: number of faces, and for the selected face the
\* age and confidence the estimator will report
Images == {[faces |-> 0, age |-> 0, conf |-> 0]}
          \cup [faces : 1..MaxFaces, age : Ages, conf : Confidences]

\* -------------------------------------------------------------- service
BandOf(age) == IF age < T1 THEN "Kid" ELSE IF age < T2 THEN "Teen" ELSE "Adult"

Returns(v) == [raised |-> NoExc, value |-> v]

Raises(e) == [raised |-> e, value |-> Unset]

\* AgeService.detect_and_predict: locator, estimator, band mapper
detect_and_predict(img, fault) ==
    IF img.faces = 0 THEN Returns(Dict([error |-> Str("No face detected")]))
    ELSE IF fault THEN Raises(Exc("InferenceError"))
    ELSE IF img.conf < MinConfidence THEN Returns(Dict([error |-> Str("Low confidence")]))
    ELSE Returns(Dict([age_group |-> BandOf(img.age), confidence |-> img.conf,
                       forced_safety |-> FALSE]))

\* behaviours of an unconstrained detect_and_predict
ServiceBehaviours ==
    { Returns(PyNone), Returns(PyList), Returns(PyObject),
      Returns(Dict([age_group |-> "Adult", confidence |-> 90, forced_safety |-> FALSE])),
      Returns(Dict([age_group |-> "Adult"])),
      Returns(Dict([error |-> Str("No face detected")])),
      Returns(Dict([error |-> Str("")])),
      Raises(Exc("RuntimeError")),
      Raises(HTTPException(500, "backend")),
      Raises(Exc("KeyboardInterrupt")) }

\* -------------------------------------------------------------- handler
NoFaceDecisionUnforced(result) ==
    Dict([age_group |-> "Kid", confidence |-> 0, forced_safety |-> FALSE,
          msg |-> GetError(result.d)])

\* the record built at lines 77-82
NoFaceDecision(result) ==
    Dict([age_group |-> "Kid", confidence |-> 0, forced_safety |-> TRUE,
          msg |-> GetError(result.d)])

FailSafeDecisionStaleConfidence ==
    Dict([age_group |-> "Kid", confidence |-> 100, forced_safety |-> TRUE,
          error |-> Str("Internal Processing Error")])

\* the record built at lines 91-96
FailSafeDecision ==
    Dict([age_group |-> "Kid", confidence |-> 0, forced_safety |-> TRUE,
          error |-> Str("Internal Processing Error")])

HasGet(v) == v.kind \in {"dict", "object"}

CheckResultPassThrough(result) == Returns(result)

CheckResultAnyDict(result) ==
    IF HasGet(result)
    THEN IF result.kind = "object" THEN Raises(Exc("TypeError")) ELSE Returns(NoFaceDecision(result))
    ELSE Returns(result)

\* lines 75-84: hasattr(result, "get") and result.get("error")
CheckResult(result) ==
    IF HasGet(result)
    THEN IF result.kind = "object" THEN Raises(Exc("TypeError"))
         ELSE IF Truthy(GetError(result.d)) THEN Returns(NoFaceDecision(result))
         ELSE Returns(result)
    ELSE Returns(result)

NoOutcome == [kind |-> "none", value |-> Unset, exc |-> NoExc]

Returned(v) == [kind |-> "return", value |-> v, exc |-> NoExc]

Raised(e) == [kind |-> "raise", value |-> Unset, exc |-> e]

VARIABLES pc, loop, payload, image_bytes, image_np, invoked, result, exc, outcome

vars == <<pc, loop, payload, image_bytes, image_np, invoked, result, exc, outcome>>

Init ==
    /\ pc = [i \in Calls |-> "idle"]
    /\ loop = 0
    /\ payload = [i \in Calls |-> <<>>]
    /\ image_bytes = [i \in Calls |-> -1]
    /\ image_np = [i \in Calls |-> NoImage]
    /\ invoked = [i \in Calls |-> FALSE]
    /\ result = [i \in Calls |-> Unset]
    /\ exc = [i \in Calls |-> NoExc]
    /\ outcome = [i \in Calls |-> NoOutcome]

\* a client posts to /api/age-check: the request waits for the event loop
Arrive(i) ==
    /\ pc[i] = "idle"
    /\ pc' = [pc EXCEPT ![i] = "received"]
    /\ UNCHANGED <<loop, payload, image_bytes, image_np, invoked, result, exc, outcome>>

LoopIdleThreadPool == TRUE

\* the event loop runs one coroutine at a time
LoopIdle == loop = 0

\* the loop starts the coroutine with its parsed payload; lines 61-62
Validate(i) ==
    /\ pc[i] = "received"
    /\ LoopIdle
    /\ loop' = i
    /\ \E p \in Payloads :
        /\ payload' = [payload EXCEPT ![i] = p]
        /\ IF p = <<>>
           THEN /\ exc' = [exc EXCEPT ![i] = HTTPException(400, "Empty image payload")]
                /\ pc' = [pc EXCEPT ![i] = "except"]
           ELSE /\ exc' = exc
                /\ pc' = [pc EXCEPT ![i] = "decode"]
    /\ UNCHANGED <<image_bytes, image_np, invoked, result, outcome>>

\* lines 64-69, the inner try/except included; on success the call enters
\* age_service.detect_and_predict at line 72
Decode(i) ==
    /\ pc[i] = "decode"
    /\ LET b == b64decode(payload[i]) IN
       IF b.raised # "none"
       THEN /\ exc' = [exc EXCEPT ![i] =
                         IF DecodeCaught(b.raised)
                         THEN HTTPException(400, "Invalid image format") ELSE Exc(b.raised)]
            /\ pc' = [pc EXCEPT ![i] = "except"]
            /\ UNCHANGED <<image_bytes, image_np, invoked>>
       ELSE /\ image_bytes' = [image_bytes EXCEPT ![i] = b.len]
            /\ \E o \in ImageOutcomes(b.len) :
                IF o = "ok"
                THEN /\ \E img \in Images : image_np' = [image_np EXCEPT ![i] = img]
                     /\ invoked' = [invoked EXCEPT ![i] = TRUE]
                     /\ pc' = [pc EXCEPT ![i] = "inference"]
                     /\ exc' = exc
                ELSE /\ exc' = [exc EXCEPT ![i] =
                                  IF DecodeCaught(o)
                                  THEN HTTPException(400, "Invalid image format") ELSE Exc(o)]
                     /\ pc' = [pc EXCEPT ![i] = "except"]
                     /\ UNCHANGED <<image_np, invoked>>
    /\ UNCHANGED <<loop, payload, result, outcome>>

\* the effect of detect_and_predict finishing with behaviour b
Finish(i, b) ==
    /\ IF b.raised.type = "none"
       THEN /\ result' = [result EXCEPT ![i] = b.value]
            /\ pc' = [pc EXCEPT ![i] = "check"]
            /\ exc' = exc
       ELSE /\ exc' = [exc EXCEPT ![i] = b.raised]
            /\ pc' = [pc EXCEPT ![i] = "except"]
            /\ result' = result
    /\ UNCHANGED <<loop, payload, image_bytes, image_np, invoked, outcome>>

\* line 72 with the service of the design
Inference(i) ==
    /\ pc[i] = "inference"
    /\ \E fault \in (IF image_np[i].faces = 0 THEN {FALSE} ELSE BOOLEAN) :
          Finish(i, detect_and_predict(image_np[i], fault))

\* line 72 with a service that may return or raise anything
InferenceAny(i) ==
    /\ pc[i] = "inference"
    /\ \E b \in ServiceBehaviours : Finish(i, b)

\* lines 75-84
Check(i) ==
    /\ pc[i] = "check"
    /\ LET c == CheckResult(result[i]) IN
       IF c.raised.type = "none"
       THEN /\ outcome' = [outcome EXCEPT ![i] = Returned(c.value)]
            /\ pc' = [pc EXCEPT ![i] = "done"]
            /\ exc' = exc
       ELSE /\ exc' = [exc EXCEPT ![i] = c.raised]
            /\ pc' = [pc EXCEPT ![i] = "except"]
            /\ outcome' = outcome
    /\ UNCHANGED <<loop, payload, image_bytes, image_np, invoked, result>>

\* lines 86-96
Except(i) ==
    /\ pc[i] = "except"
    /\ outcome' = [outcome EXCEPT ![i] =
                     IF exc[i].type = "HTTPException" THEN Raised(exc[i])
                     ELSE IF IsException(exc[i].type) THEN Returned(FailSafeDecision)
                     ELSE Raised(exc[i])]
    /\ pc' = [pc EXCEPT ![i] = "done"]
    /\ UNCHANGED <<loop, payload, image_bytes, image_np, invoked, result, exc>>

\* the call leaves the handler: the response goes out, the frame is dropped
\* and the event loop is free again
Complete(i) ==
    /\ pc[i] = "done"
    /\ pc' = [pc EXCEPT ![i] = "idle"]
    /\ loop' = 0
    /\ payload' = [payload EXCEPT ![i] = <<>>]
    /\ image_bytes' = [image_bytes EXCEPT ![i] = -1]
    /\ image_np' = [image_np EXCEPT ![i] = NoImage]
    /\ invoked' = [invoked EXCEPT ![i] = FALSE]
    /\ result' = [result EXCEPT ![i] = Unset]
    /\ exc' = [exc EXCEPT ![i] = NoExc]
    /\ outcome' = [outcome EXCEPT ![i] = NoOutcome]

Next ==
    \E i \in Calls :
        \/ Arrive(i)
        \/ Validate(i)
        \/ Decode(i)
        \/ Inference(i)
        \/ Check(i)
        \/ Except(i)
        \/ Complete(i)

Spec == Init /\ [][Next]_vars

NextOpen ==
    \E i \in Calls :
        \/ Arrive(i)
        \/ Validate(i)
        \/ Decode(i)
        \/ InferenceAny(i)
        \/ Check(i)
        \/ Except(i)
        \/ Complete(i)

SpecOpen == Init /\ [][NextOpen]_vars

\* ---------------------------------------------------------- properties
Done(i) == pc[i] = "done"

ClientFault(o) == o.kind = "raise" /\ o.exc.type = "HTTPException" /\ o.exc.status = 400

WellFormedDecision(v) ==
    /\ v.kind = "dict"
    /\ {"age_group", "confidence", "forced_safety"} \subseteq DOMAIN v.d
    /\ v.d.age_group \in Bands
    /\ v.d.confidence \in 0..100
    /\ v.d.forced_safety \in BOOLEAN

IsDecision(o) == o.kind = "return" /\ WellFormedDecision(o.value)

MostRestrictive(o) ==
    /\ IsDecision(o)
    /\ o.value.d.age_group = "Kid"
    /\ o.value.d.confidence = 0
    /\ o.value.d.forced_safety = TRUE

\* decoding succeeded and detect_and_predict returned a value
Estimated(i) == Done(i) /\ image_np[i].faces > 0 /\ result[i].kind # "unset"

\* C1: whatever decoding and detect_and_predict do, a call leaves the handler
\* either with HTTPException 400 or with a well-formed Decision
C1_FaultOrDecision ==
    \A i \in Calls : Done(i) => ClientFault(outcome[i]) \/ IsDecision(outcome[i])

\* C2: a decoded image with zero faces gives exactly Kid, 0.0, forced_safety
C2_NoFaceIsKid ==
    \A i \in Calls : (Done(i) /\ image_np[i].faces = 0) => MostRestrictive(outcome[i])

C2_Witness ==
    \E i \in Calls : Done(i) /\ image_np[i].faces = 0 /\ outcome[i].kind = "return"

\* C3: when detect_and_predict raises, the Decision has the values and the
\* record shape of the no-face Decision; only the reason text differs
C3_FaultEqualsNoFace ==
    \A i \in Calls :
        (Done(i) /\ invoked[i] /\ result[i].kind = "unset") =>
            LET nf == NoFaceDecision(Dict([error |-> Str("No face detected")])).d IN
            /\ MostRestrictive(outcome[i])
            /\ outcome[i].value.d.age_group = nf.age_group
            /\ outcome[i].value.d.confidence = nf.confidence
            /\ outcome[i].value.d.forced_safety = nf.forced_safety
            /\ DOMAIN outcome[i].value.d = DOMAIN nf

\* C4: an estimate below the confidence threshold gives forced_safety and
\* Kid, whatever the estimated age
C4_LowConfidenceIsKid ==
    \A i \in Calls :
        (Estimated(i) /\ image_np[i].conf < MinConfidence) =>
            /\ IsDecision(outcome[i])
            /\ outcome[i].value.d.forced_safety = TRUE
            /\ outcome[i].value.d.age_group = "Kid"

C4_Witness ==
    \E i \in Calls :
        /\ Estimated(i)
        /\ image_np[i].conf < MinConfidence
        /\ image_np[i].age >= T2
        /\ outcome[i].kind = "return"

\* C5: every returned Decision with forced_safety set is Kid with confidence 0.0
C5_ForcedIsKidZero ==
    \A i \in Calls :
        (Done(i) /\ IsDecision(outcome[i]) /\ outcome[i].value.d.forced_safety = TRUE) =>
            /\ outcome[i].value.d.age_group = "Kid"
            /\ outcome[i].value.d.confidence = 0

C5_Witness ==
    \E i \in Calls :
        /\ Done(i)
        /\ exc[i].type = "InferenceError"
        /\ IsDecision(outcome[i])
        /\ outcome[i].value.d.forced_safety = TRUE

\* C6: an empty payload, or one that decodes to zero bytes, ends in HTTP 400
\* and detect_and_predict is not invoked
C6_EmptyIsClientFault ==
    \A i \in Calls :
        (Done(i) /\ (payload[i] = <<>> \/ image_bytes[i] = 0)) =>
            ClientFault(outcome[i]) /\ ~invoked[i]

C6_Witness ==
    \E i \in Calls :
        Done(i) /\ payload[i] # <<>> /\ image_bytes[i] = 0 /\ outcome[i].kind = "raise"

\* C7: a non-empty payload that fails to decode ends in HTTP 400, whatever
\* exception the decoding raised, and never in the fail-safe Decision
C7_DecodeFailureIsClientFault ==
    \A i \in Calls :
        (Done(i) /\ payload[i] # <<>> /\ ~invoked[i]) => ClientFault(outcome[i])

\* C8: face found, estimate at or above the threshold: the Decision is the
\* mapped band, the estimator's confidence, forced_safety false, and it is
\* the service's result unaltered
C8_ConfidentPassThrough ==
    \A i \in Calls :
        (Estimated(i) /\ image_np[i].conf >= MinConfidence) =>
            /\ outcome[i].kind = "return"
            /\ outcome[i].value = result[i]
            /\ outcome[i].value = Dict([age_group |-> BandOf(image_np[i].age),
                                        confidence |-> image_np[i].conf,
                                        forced_safety |-> FALSE])

C8_Witness ==
    \E i \in Calls :
        /\ Estimated(i)
        /\ image_np[i].conf >= MinConfidence
        /\ outcome[i].kind = "return"
        /\ outcome[i].value.d.age_group = "Adult"

\* C9: at most one call is inside detect_and_predict at any time
C9_InferenceSerialized ==
    Cardinality({i \in Calls : pc[i] = "inference"}) <= 1

C9_Witness ==
    \E i, j \in Calls : i # j /\ pc[i] = "inference" /\ pc[j] = "received"

\* C10: while one call is inside detect_and_predict, a waiting call can
\* still take its validation step
C10_NormalizerNotBlocked ==
    \A i, j \in Calls :
        (i # j /\ pc[i] = "inference" /\ pc[j] = "received") => ENABLED Validate(j)

====
